---- MODULE Spec2Model ----
(***************************************************************************)
(* Model of coach_matcher.py: compute_scores, the scoring engine that      *)
(* turns a drills log, a group roster and a coach table into a ranked      *)
(* table of coaches.                                                       *)
(*                                                                         *)
(* Text is modelled as a sequence of one-character strings, so that        *)
(* str.strip, str.lower and str.split are computed as Python computes      *)
(* them.  Scores are exact fractions [n |-> numerator, d |-> denominator]  *)
(* in lowest terms, compared by cross-multiplication.  Dates are day       *)
(* numbers a whole number of half-lives apart, so every recency weight     *)
(* 0.5 ** (days_ago / half_life_days) is an exact multiple of              *)
(* 1 / RecencyScale.                                                       *)
(***************************************************************************)
EXTENDS Integers, Sequences, FiniteSets, TLC

VARIABLES drills, roster, coaches, event, min_sessions, weights,
          pc, outcome, grp, result, columns, previous, raised

vars == <<drills, roster, coaches, event, min_sessions, weights,
          pc, outcome, grp, result, columns, previous, raised>>

inputs == <<drills, roster, coaches, event, min_sessions, weights>>

(***************************************************************************)
(* Text                                                                    *)
(***************************************************************************)
LowerChar(c) ==
    CASE c = "A" -> "a"
      [] c = "B" -> "b"
      [] c = "C" -> "c"
      [] c = "D" -> "d"
      [] c = "F" -> "f"
      [] c = "L" -> "l"
      [] c = "P" -> "p"
      [] c = "X" -> "x"
      [] c = "Y" -> "y"
      [] OTHER -> c

\* str.lower
Lower(s) == [i \in DOMAIN s |-> LowerChar(s[i])]

RECURSIVE LStrip(_)
LStrip(s) == IF s # <<>> /\ Head(s) = " " THEN LStrip(Tail(s)) ELSE s

RECURSIVE RStrip(_)
RStrip(s) ==
    IF s # <<>> /\ s[Len(s)] = " " THEN RStrip(SubSeq(s, 1, Len(s) - 1)) ELSE s

\* str.strip
Strip(s) == RStrip(LStrip(s))

\* str.split(","): the pieces between commas, empty pieces included
RECURSIVE SplitFrom(_, _, _)
SplitFrom(s, i, piece) ==
    IF i > Len(s) THEN <<piece>>
    ELSE IF s[i] = "," THEN <<piece>> \o SplitFrom(s, i + 1, <<>>)
    ELSE SplitFrom(s, i + 1, Append(piece, s[i]))

Split(s) == SplitFrom(s, 1, <<>>)

(***************************************************************************)
(* Values of the input tables                                              *)
(***************************************************************************)
\* A cell that may be missing is [kind, v]: a number, a text, or nothing
Num(x) == [kind |-> "num", v |-> x]
Text(s) == [kind |-> "text", v |-> s]
\* pandas' missing values: NaT in a datetime column, NaN in a numeric one
NaT == [kind |-> "nan", v |-> 0]
NaN == [kind |-> "nan", v |-> 0]
\* event=None
None == [kind |-> "none", v |-> 0]
IsNaN(c) == c.kind = "nan"
\* a rating cell that holds text which is no number
BadRating == Text(<<"4", " ", "s", "t", "a", "r", "s">>)

\* the age of the oldest record, in half-lives
MaxHalfLives == 1

\* --half_life_days, and the day --as_of names (the oldest record is of day 0)
half_life_days == 30
as_of_date == MaxHalfLives * half_life_days

\* the weights compute_scores falls back on, in hundredths
DefaultWeights ==
    [recency |-> 40, volume |-> 30, coverage |-> 15, minutes |-> 10, specialty |-> 5]

\* {**defaults, **weights}: the keys given override the defaults
MergeWeights(ws) ==
    [k \in DOMAIN DefaultWeights |->
        IF ws.kind # "none" /\ k \in DOMAIN ws.v THEN ws.v[k] ELSE DefaultWeights[k]]

(***************************************************************************)
(* Arithmetic on exact fractions                                           *)
(***************************************************************************)
RECURSIVE GCD(_, _)
GCD(a, b) == IF b = 0 THEN a ELSE GCD(b, a % b)

\* n / d in lowest terms; n >= 0 and d >= 1
Frac(n, d) == LET g == GCD(n, d) IN [n |-> n \div g, d |-> d \div g]
Zero == Frac(0, 1)
FracLe(a, b) == a.n * b.d <= b.n * a.d
FracLt(a, b) == a.n * b.d < b.n * a.d
FracEq(a, b) == a.n * b.d = b.n * a.d
FracAdd(a, b) == Frac(a.n * b.d + b.n * a.d, a.d * b.d)
FracScale(k, a) == Frac(k * a.n, a.d)

Max(S) == CHOOSE x \in S : \A y \in S : y <= x
Min(S) == CHOOSE x \in S : \A y \in S : x <= y

RECURSIVE SumSeq(_)
SumSeq(s) == IF s = <<>> THEN 0 ELSE Head(s) + SumSeq(Tail(s))

RECURSIVE Flatten(_)
Flatten(ss) == IF ss = <<>> THEN <<>> ELSE Head(ss) \o Flatten(Tail(ss))

Pow2(k) == 2 ^ k

\* a column or table built row by row, held as a sequence
Table(f) == <<>> \o f

(***************************************************************************)
(* compute_scores, stage by stage                                          *)
(***************************************************************************)
\* the order in which groupby("coach") lists its keys: sorted ascending
CoachOrder == <<"X", "Y">>

CoachIndex(c) == CHOOSE k \in DOMAIN CoachOrder : CoachOrder[k] = c

\* every weight is a whole multiple of 1 / RecencyScale
RecencyScale == Pow2(MaxHalfLives)

\* set(roster["student"].str.strip().str.lower().unique())
roster_students(ro) == {Lower(Strip(ro[i])) : i \in DOMAIN ro}

\* drills[drills["student"].str.strip().str.lower().isin(roster_students)]
FilterDrills(dr, ro) ==
    SelectSeq(dr, LAMBDA rec : Lower(Strip(rec.student)) \in roster_students(ro))

\* days_ago with the missing dates filled with as_of_date
DaysAgoFilled(rec) ==
    IF IsNaN(rec.date) THEN Num(0) ELSE Num(Max({0, as_of_date - rec.date.v}))

\* (as_of_date - d["date"]).dt.days.clip(lower=0); NaT gives NaN
days_ago(rec) ==
    IF IsNaN(rec.date) THEN NaN ELSE Num(Max({0, as_of_date - rec.date.v}))

\* 0.5 ** (days_ago / max(half_life_days, 0.0001)), in units of 1 / RecencyScale;
\* half_life is at least one day, which max(..., 0.0001) leaves as it is
exponential_recency_weight(days, half_life) ==
    RecencyScale \div Pow2(days \div half_life)

\* d["recency_w"]; 0.5 ** NaN is NaN
recency_w(rec) ==
    IF IsNaN(days_ago(rec)) THEN NaN
    ELSE Num(exponential_recency_weight(days_ago(rec).v, half_life_days))

\* the "sum" aggregation skips NaN, and is 0 when nothing is left
SumSkipNaN(s) ==
    LET kept == SelectSeq(s, LAMBDA x : ~IsNaN(x))
    IN  SumSeq([i \in DOMAIN kept |-> kept[i].v])

\* the "students_covered" aggregation: len(set(s.str.lower()))
StudentsCovered(rows) == Cardinality({Lower(rows[i].student) : i \in DOMAIN rows})

GroupKeys(d) == SelectSeq(CoachOrder, LAMBDA c : \E i \in DOMAIN d : d[i].coach = c)

\* d.groupby("coach").agg(...).reset_index()
Aggregate(d) ==
    Table(
    LET keys == GroupKeys(d)
    IN  [k \in DOMAIN keys |->
            LET rows == SelectSeq(d, LAMBDA rec : rec.coach = keys[k])
            IN  [coach            |-> keys[k],
                 sessions         |-> Len(rows),
                 students_covered |-> StudentsCovered(rows),
                 total_minutes    |-> SumSeq([i \in DOMAIN rows |-> rows[i].minutes]),
                 recency_sum      |-> SumSkipNaN([i \in DOMAIN rows |-> recency_w(rows[i])])]])

\* norm with the maximum taken over the rows that clear min_sessions only
NormAfterBar(g, col) ==
    LET kept == {i \in DOMAIN g : g[i].sessions >= min_sessions}
        maxv == IF kept = {} THEN 0 ELSE Max({g[i][col] : i \in kept})
    IN  Table([i \in DOMAIN g |-> IF maxv <= 0 THEN Zero ELSE Frac(g[i][col], maxv)])

\* norm with the operands of the division swapped
NormSwapped(g, col) ==
    LET maxv == Max({g[i][col] : i \in DOMAIN g})
    IN  Table([i \in DOMAIN g |->
            IF maxv <= 0 \/ g[i][col] <= 0 THEN Zero ELSE Frac(maxv, g[i][col])])

\* norm(col): the column divided by its maximum over grp, zeros if that is <= 0
norm(g, col) ==
    Table(
    LET maxv == Max({g[i][col] : i \in DOMAIN g})
    IN  [i \in DOMAIN g |-> IF maxv <= 0 THEN Zero ELSE Frac(g[i][col], maxv)])

\* grp["students_covered"] / max(len(roster_students), 1)
CoverageScore(row, ro) ==
    Frac(row.students_covered, Max({Cardinality(roster_students(ro)), 1}))

\* the four scores computed from the aggregates
Normalize(g, ro) ==
    Table(
    LET rs == norm(g, "recency_sum")
        vs == norm(g, "sessions")
        ms == norm(g, "total_minutes")
    IN  [i \in DOMAIN g |->
            g[i] @@ [recency_score  |-> rs[i],
                     volume_score   |-> vs[i],
                     coverage_score |-> CoverageScore(g[i], ro),
                     minutes_score  |-> ms[i]]])

\* the tags of a specialties cell: lowercased, split at commas, trimmed, non-empty
Tags(sp) ==
    LET text   == IF IsNaN(sp) THEN <<>> ELSE Lower(sp.v)
        pieces == Split(text)
    IN  {Strip(pieces[i]) : i \in {j \in DOMAIN pieces : Strip(pieces[j]) # <<>>}}

\* coaches_local["specialty_match"]
SpecialtyMatch(sp, ev) ==
    IF ev.kind = "none" THEN 0
    ELSE IF Lower(ev.v) \in Tags(sp) THEN 1 ELSE 0

\* grp.merge(coaches_local[[coach, specialty_match, rating]], on="coach", how="left")
Merge(g, cl, ev) ==
    Flatten([i \in DOMAIN g |->
        LET m == SelectSeq(cl, LAMBDA p : p.coach = g[i].coach)
        IN  IF m = <<>>
            THEN <<g[i] @@ [specialty_match |-> NaN, rating |-> NaN]>>
            ELSE [j \in DOMAIN m |->
                     g[i] @@ [specialty_match |-> Num(SpecialtyMatch(m[j].specialties, ev)),
                              rating          |-> m[j].rating]]])

\* .fillna(0)
FillNa0(x) == IF IsNaN(x) THEN 0 ELSE x.v

\* grp["rating"].fillna(0).astype(float) raises ValueError on text that is no number
RatingRaises(g) == \E i \in DOMAIN g : g[i].rating.kind = "text"

\* r_norm as r / r.max(), the way norm scales the other columns
RatingNormByMax(g) ==
    LET r    == [i \in DOMAIN g |-> FillNa0(g[i].rating)]
        rmax == Max({r[i] : i \in DOMAIN r})
    IN  Table([i \in DOMAIN g |-> IF rmax > 0 THEN Frac(r[i], rmax) ELSE Zero])

\* r_norm: (r - r.min()) / (r.max() - r.min()), zeros when all ratings are equal
RatingNorm(g) ==
    Table(
    LET r    == [i \in DOMAIN g |-> FillNa0(g[i].rating)]
        rmin == Min({r[i] : i \in DOMAIN r})
        rmax == Max({r[i] : i \in DOMAIN r})
    IN  [i \in DOMAIN g |->
            IF rmax > rmin THEN Frac(r[i] - rmin, rmax - rmin) ELSE Zero])

\* spec_raw = specialty_match.fillna(0) * 0.7 + r_norm * 0.3
SpecRaw(g) ==
    Table(
    LET rn == RatingNorm(g)
    IN  [i \in DOMAIN g |->
            FracAdd(Frac(7 * FillNa0(g[i].specialty_match), 10),
                    Frac(3 * rn[i].n, 10 * rn[i].d))])

FracMax(s) == s[CHOOSE i \in DOMAIN s : \A j \in DOMAIN s : FracLe(s[j], s[i])]

\* grp["specialty_score"] = spec_raw / spec_raw.max() if spec_raw.max() > 0 else 0.0
SpecialtyScore(g) ==
    Table(
    LET raw  == SpecRaw(g)
        maxv == FracMax(raw)
    IN  [i \in DOMAIN g |->
            g[i] @@ [specialty_score |->
                        IF maxv.n > 0
                        THEN Frac(raw[i].n * maxv.d, raw[i].d * maxv.n)
                        ELSE Zero]])

\* grp[grp["sessions"] >= min_sessions]
Threshold(g, ms) == SelectSeq(g, LAMBDA row : row.sessions >= ms)

\* the weighted sum of the five scores, the weights in hundredths
Combined(g, ws) ==
    Table(
    LET w == MergeWeights(ws)
    IN  [i \in DOMAIN g |->
            g[i] @@ [combined_score |->
                FracAdd(FracScale(w.recency, g[i].recency_score),
                FracAdd(FracScale(w.volume, g[i].volume_score),
                FracAdd(FracScale(w.coverage, g[i].coverage_score),
                FracAdd(FracScale(w.minutes, g[i].minutes_score),
                        FracScale(w.specialty, g[i].specialty_score)))))]])

\* sort_values("combined_score", ascending=False) with the default kind,
\* "quicksort", which is not stable: every descending arrangement of the rows
\* is an order the call may return
SortOrders(g) ==
    {p \in Permutations(DOMAIN g) :
        \A i, j \in DOMAIN g :
            i < j => FracLe(g[p[j]].combined_score, g[p[i]].combined_score)}

\* (coverage_score * 100).round(1), in tenths of a percent
PercentOfGroupCovered(row) ==
    (2000 * row.coverage_score.n + row.coverage_score.d) \div (2 * row.coverage_score.d)

\* np.where(students_covered >= max(1, int(0.5 * len(roster_students))), ..., "")
Notes(row, ro) ==
    IF row.students_covered >= Max({1, Cardinality(roster_students(ro)) \div 2})
    THEN "Worked with majority of group recently"
    ELSE ""

\* the columns of the table returned when the filtered log is empty
EmptyColumns ==
    <<"coach", "sessions", "students_covered", "total_minutes", "recency_score",
      "volume_score", "coverage_score", "minutes_score", "specialty_score",
      "combined_score">>

\* cols + ["percent_of_group_covered", "notes"]
TableColumns ==
    <<"coach", "sessions", "students_covered", "total_minutes", "recency_score",
      "volume_score", "coverage_score", "minutes_score", "specialty_score",
      "combined_score", "percent_of_group_covered", "notes">>

\* grp[cols + ["percent_of_group_covered", "notes"]]
OutputRow(row, ro) ==
    [c \in {TableColumns[k] : k \in DOMAIN TableColumns} |->
        CASE c = "percent_of_group_covered" -> PercentOfGroupCovered(row)
          [] c = "notes" -> Notes(row, ro)
          [] OTHER -> row[c]]

(***************************************************************************)
(* The adapter in front of compute_scores                                  *)
(***************************************************************************)
\* coerce_types: a date that does not parse becomes NaT, and minutes that are
\* no number become 0
coerce_types(raw) ==
    Table(
    [i \in DOMAIN raw |->
        [student |-> raw[i].student,
         coach   |-> raw[i].coach,
         date    |-> IF raw[i].date.kind = "num" THEN raw[i].date ELSE NaT,
         minutes |-> IF raw[i].minutes.kind = "num" THEN raw[i].minutes.v ELSE 0]])

(***************************************************************************)
(* Inputs                                                                  *)
(***************************************************************************)
\* the longest drills log
MaxRecords == 3
\* the most minutes one record holds
MaxMinutes == 2

\* student identifiers as they are typed in the log and in the roster
StudentA == <<"a">>
StudentPaddedA == <<" ", "A">>
StudentB == <<"b">>
RosterB == <<"B", " ">>

Rosters == {<<StudentA>>, <<StudentA, RosterB>>}

Unparseable == Text(<<"?">>)

\* logs that vary who drilled with whom: every record is dated after as_of_date
\* and holds MaxMinutes minutes
IdentityRecords ==
    [student : {StudentA, StudentPaddedA, StudentB},
     coach   : {"X", "Y"},
     date    : {Num(as_of_date + half_life_days)},
     minutes : {Num(MaxMinutes)}]

\* logs that vary when and how long, for one roster student: records whose
\* date is unparseable, with minutes missing or MaxMinutes, and records of
\* as_of_date or a whole number of half-lives before it, with MaxMinutes
UndatedRecords ==
    [student : {StudentA},
     coach   : {"X", "Y"},
     date    : {Unparseable},
     minutes : {NaN, Num(MaxMinutes)}]

DatedRecords ==
    [student : {StudentA},
     coach   : {"X", "Y"},
     date    : {Num(as_of_date - k * half_life_days) : k \in 0..MaxHalfLives},
     minutes : {Num(MaxMinutes)}]

TimingRecords == UndatedRecords \cup DatedRecords

\* logs that vary the coach alone
CoachRecords ==
    [student : {StudentA},
     coach   : {"X", "Y"},
     date    : {Num(as_of_date)},
     minutes : {Num(MaxMinutes)}]

\* logs that vary the minutes alone
MinutesRecords ==
    [student : {StudentA},
     coach   : {"X", "Y"},
     date    : {Num(as_of_date)},
     minutes : {Num(m) : m \in 0..MaxMinutes}]

Tables(kinds) == UNION {[1..n -> kinds] : n \in 0..MaxRecords}

Profile(c, sp, r) == [coach |-> c, specialties |-> sp, rating |-> r]

TagsLDPF == Text(<<"L", "D", ",", " ", "p", "f">>)
TagsLd == Text(<<" ", "l", "d", ",">>)
TagsCX == Text(<<"c", "x">>)
TagsPF == Text(<<"p", "f">>)

\* coach tables: none; distinct ratings; equal ratings, with a missing tag list;
\* a missing rating; a rating that is no number; two rows for one coach
CoachTables ==
    { <<>>,
      <<Profile("X", TagsLDPF, Num(4)), Profile("Y", TagsLd, Num(5))>>,
      <<Profile("X", TagsCX, Num(4)), Profile("Y", NaN, Num(4))>>,
      <<Profile("X", TagsLd, NaN), Profile("Y", TagsPF, Num(5))>>,
      <<Profile("X", TagsLd, BadRating), Profile("Y", TagsPF, Num(5))>>,
      <<Profile("X", TagsLd, Num(4)), Profile("X", TagsPF, Num(5))>> }

Events == {None, Text(<<"L", "D">>), Text(<<"D", "X">>)}

\* --min_sessions: the default, and a bar of two sessions
MinSessions == {1, 2}

\* --weights: none, or an override of one key
WeightChoices == {None, [kind |-> "dict", v |-> [minutes |-> 100]]}

Family(k, r, t, e, b, w) ==
    [records |-> k, rosters |-> r, tables |-> t, events |-> e, bars |-> b,
     weights |-> w]

Families ==
    { Family(IdentityRecords, Rosters, {<<>>}, {None}, MinSessions, {None}),
      Family(TimingRecords, {<<StudentA>>}, {<<>>}, {None}, MinSessions, {None}),
      Family(CoachRecords, {<<StudentA>>}, CoachTables, Events, MinSessions,
             WeightChoices) }

MinutesFamilies ==
    { Family(MinutesRecords, {<<StudentA>>}, {<<>>}, {None}, {1}, {None}) }

(***************************************************************************)
(* The state machine: main() loads the tables and calls compute_scores     *)
(***************************************************************************)
Loaded(families) ==
    /\ \E f \in families :
        /\ \E raw \in Tables(f.records) : drills = coerce_types(raw)
        /\ roster \in f.rosters
        /\ coaches \in f.tables
        /\ event \in f.events
        /\ min_sessions \in f.bars
        /\ weights \in f.weights
    /\ pc = "loaded"
    /\ outcome = "none"
    /\ grp = <<>>
    /\ result = <<>>
    /\ columns = <<>>
    /\ previous = <<>>
    /\ raised = ""

Init == Loaded(Families)

InitMinutes == Loaded(MinutesFamilies)

\* compute_scores on the log dr: what it returns, or the error it raises
Returns(dr) ==
    LET d == FilterDrills(dr, roster)
    IN  IF d = <<>>
        THEN \* the early return: an empty table
             /\ outcome' = "empty"
             /\ grp' = <<>>
             /\ result' = <<>>
             /\ columns' = EmptyColumns
        ELSE LET merged == Merge(Normalize(Aggregate(d), roster), coaches, event)
             IN  IF RatingRaises(merged)
                 THEN \* astype(float) raises
                      /\ outcome' = "ValueError"
                      /\ grp' = merged
                      /\ result' = <<>>
                      /\ columns' = <<>>
                 ELSE LET scored == SpecialtyScore(merged)
                          ranked == Combined(Threshold(scored, min_sessions), weights)
                      IN  /\ outcome' = "table"
                          /\ grp' = scored
                          /\ \E p \in SortOrders(ranked) :
                                result' = Table([i \in DOMAIN ranked |->
                                                    OutputRow(ranked[p[i]], roster)])
                          /\ columns' = TableColumns

\* main(): the call of compute_scores on the loaded tables
ComputeScores ==
    /\ pc = "loaded"
    /\ pc' = "done"
    /\ Returns(drills)
    /\ UNCHANGED <<inputs, previous, raised>>

\* the same call again with one record's minutes raised by one, everything
\* else equal; previous keeps the table of the call before, raised the coach
\* of the record
RaiseMinutes ==
    /\ pc = "done"
    /\ \E i \in DOMAIN drills :
        /\ drills[i].minutes < MaxMinutes
        /\ drills' = [drills EXCEPT ![i].minutes = @ + 1]
        /\ raised' = drills[i].coach
        /\ Returns(drills')
    /\ previous' = result
    /\ UNCHANGED <<roster, coaches, event, min_sessions, weights, pc>>

Next == ComputeScores

Spec == Init /\ [][Next]_vars

NextMinutes == ComputeScores \/ RaiseMinutes

SpecMinutes == InitMinutes /\ [][NextMinutes]_vars

(***************************************************************************)
(* What the claims speak of, stated on the inputs and the returned table   *)
(***************************************************************************)
RosterSet == {Lower(Strip(roster[i])) : i \in DOMAIN roster}

\* the records whose student, trimmed and lowercased, is on the roster
Qualifying == {i \in DOMAIN drills : Lower(Strip(drills[i].student)) \in RosterSet}

QualifyingOf(c) == {i \in Qualifying : drills[i].coach = c}

CoachesSeen == {drills[i].coach : i \in Qualifying}

ResultCoaches == {result[k].coach : k \in DOMAIN result}

RECURSIVE SetSum(_, _)
SetSum(S, f) ==
    IF S = {} THEN 0
    ELSE LET x == CHOOSE y \in S : TRUE IN f[x] + SetSum(S \ {x}, f)

MinutesAt(i) == drills[i].minutes

\* the decay weight of record i in units of 1 / RecencyScale, 0 without a date
WeightAt(i) ==
    IF drills[i].date.kind # "num" THEN 0
    ELSE IF drills[i].date.v >= as_of_date THEN RecencyScale
    ELSE RecencyScale \div (2 ^ ((as_of_date - drills[i].date.v) \div half_life_days))

SessionsOf(c) == Cardinality(QualifyingOf(c))
MinutesOf(c) == SetSum(QualifyingOf(c), [i \in DOMAIN drills |-> MinutesAt(i)])
RecencyOf(c) == SetSum(QualifyingOf(c), [i \in DOMAIN drills |-> WeightAt(i)])

\* score = x / m, and 0 when m <= 0
IsRatio(score, x, m) ==
    IF m <= 0 THEN score.n = 0 ELSE score.n * m = x * score.d

InUnitInterval(score) == 0 <= score.n /\ score.n <= score.d

IsZero(score) == score.n = 0

\* the (match, rating) pairs the coach table holds for coach c, missing as 0
EvidenceOf(c) ==
    LET rows == {j \in DOMAIN coaches : coaches[j].coach = c}
    IN  IF rows = {} THEN {[m |-> 0, r |-> 0]}
        ELSE {[m |-> SpecialtyMatch(coaches[j].specialties, event),
               r |-> FillNa0(coaches[j].rating)] : j \in rows}

BatchEvidence == UNION {EvidenceOf(c) : c \in CoachesSeen}

BatchRatings == {e.r : e \in BatchEvidence}

RatingSpan == Max(BatchRatings) - Min(BatchRatings)

\* 10 * RatingSpan * (0.7 * match + 0.3 * r_norm), or 10 * 0.7 * match when
\* all ratings are equal
RawSignal(e) ==
    IF RatingSpan > 0
    THEN 7 * e.m * RatingSpan + 3 * (e.r - Min(BatchRatings))
    ELSE 7 * e.m

MaxRawSignal == Max({RawSignal(e) : e \in BatchEvidence})

\* the requested event is none, or is no tag of any row of the coach table
NoTagMatches ==
    \/ event.kind = "none"
    \/ \A j \in DOMAIN coaches : Lower(event.v) \notin Tags(coaches[j].specialties)

NullDated(c) == \A i \in QualifyingOf(c) : drills[i].date.kind # "num"

Returned == pc = "done" /\ outcome # "ValueError"

(***************************************************************************)
(* The claims                                                              *)
(***************************************************************************)
\* C1: when no record's student is on the roster, the call returns an empty
\* table that has the twelve columns of a non-empty result (stated for a log
\* that holds records).
C1_EmptyTableHasAllColumns ==
    (pc = "done" /\ drills # <<>> /\ Qualifying = {}) =>
        /\ outcome = "empty"
        /\ result = <<>>
        /\ columns = TableColumns

\* C2: every row of a non-empty result has its five component scores in [0, 1].
C2_ScoresInUnitInterval ==
    outcome = "table" =>
        \A k \in DOMAIN result :
            /\ InUnitInterval(result[k].recency_score)
            /\ InUnitInterval(result[k].volume_score)
            /\ InUnitInterval(result[k].coverage_score)
            /\ InUnitInterval(result[k].minutes_score)
            /\ InUnitInterval(result[k].specialty_score)

\* C3: students_covered never exceeds the number of distinct roster students.
C3_CoveredWithinRoster ==
    outcome = "table" =>
        \A k \in DOMAIN result :
            result[k].students_covered <= Cardinality(RosterSet)

\* C4: the returned table holds exactly the coaches with a qualifying record
\* and at least min_sessions sessions, and the recency, volume, minutes and
\* specialty scores of its rows are normalized against the maxima over all
\* coaches with a qualifying record, the dropped ones included.
C4_BarAfterNormalization ==
    Returned =>
        /\ ResultCoaches = {c \in CoachesSeen : SessionsOf(c) >= min_sessions}
        /\ \A k \in DOMAIN result :
            LET c == result[k].coach
            IN  /\ IsRatio(result[k].recency_score, RecencyOf(c),
                           Max({RecencyOf(x) : x \in CoachesSeen}))
                /\ IsRatio(result[k].volume_score, SessionsOf(c),
                           Max({SessionsOf(x) : x \in CoachesSeen}))
                /\ IsRatio(result[k].minutes_score, MinutesOf(c),
                           Max({MinutesOf(x) : x \in CoachesSeen}))
                /\ \E e \in EvidenceOf(c) :
                       IsRatio(result[k].specialty_score, RawSignal(e), MaxRawSignal)

\* C4, witness: a coach below the bar holds the batch maximum of the recency
\* sum, above every coach that is returned, and a returned row has a recency
\* score strictly between 0 and 1.
C4_Witness ==
    /\ outcome = "table"
    /\ result # <<>>
    /\ \E c \in CoachesSeen \ ResultCoaches :
           \A k \in DOMAIN result : RecencyOf(c) > RecencyOf(result[k].coach)
    /\ \E k \in DOMAIN result :
           /\ result[k].recency_score.n > 0
           /\ result[k].recency_score.n < result[k].recency_score.d

\* C5: the rows are in descending order of combined_score, and rows of equal
\* combined_score keep the order of the aggregation step (by coach).
C5_StableDescendingOrder ==
    outcome = "table" =>
        \A i, j \in DOMAIN result :
            i < j =>
                /\ FracLe(result[j].combined_score, result[i].combined_score)
                /\ FracEq(result[j].combined_score, result[i].combined_score)
                       => CoachIndex(result[i].coach) <= CoachIndex(result[j].coach)

\* C6: a rating that is missing or is no number never makes the call fail.
C6_RatingNeverRaises ==
    pc = "done" => outcome # "ValueError"

\* C7 as claimed: a record without a date counts in sessions and total_minutes
\* and adds nothing to recency_sum, and a coach whose records all lack a date is
\* in the returned table with recency_sum 0 and recency_score 0.
C7_NullDatedCoachReturned ==
    Returned =>
        /\ \A g \in DOMAIN grp :
            /\ grp[g].sessions = SessionsOf(grp[g].coach)
            /\ grp[g].total_minutes = MinutesOf(grp[g].coach)
            /\ grp[g].recency_sum = RecencyOf(grp[g].coach)
        /\ \A c \in CoachesSeen :
            NullDated(c) =>
                /\ \E g \in DOMAIN grp : grp[g].coach = c /\ grp[g].recency_sum = 0
                /\ \E k \in DOMAIN result : result[k].coach = c
                /\ \A k \in DOMAIN result :
                       result[k].coach = c => IsZero(result[k].recency_score)

\* C7 as amended: the same, the coach being in the returned table whenever its
\* sessions reach min_sessions.
C7_NullDatedCoachKept ==
    Returned =>
        /\ \A g \in DOMAIN grp :
            /\ grp[g].sessions = SessionsOf(grp[g].coach)
            /\ grp[g].total_minutes = MinutesOf(grp[g].coach)
            /\ grp[g].recency_sum = RecencyOf(grp[g].coach)
        /\ \A c \in CoachesSeen :
            NullDated(c) =>
                /\ \E g \in DOMAIN grp : grp[g].coach = c /\ grp[g].recency_sum = 0
                /\ SessionsOf(c) >= min_sessions
                       => \E k \in DOMAIN result :
                              /\ result[k].coach = c
                              /\ result[k].sessions = SessionsOf(c)
                              /\ result[k].total_minutes = MinutesOf(c)
                /\ \A k \in DOMAIN result :
                       result[k].coach = c => IsZero(result[k].recency_score)

\* C7, witness: a returned coach has only undated records, which hold minutes,
\* beside a coach with a dated record.
C7_Witness ==
    /\ outcome = "table"
    /\ \E k \in DOMAIN result :
        /\ NullDated(result[k].coach)
        /\ result[k].sessions >= 2
        /\ result[k].total_minutes > 0
        /\ IsZero(result[k].recency_score)
    /\ \E k \in DOMAIN result : ~IsZero(result[k].recency_score)

\* C8: with no event requested, or one that is no coach's tag, every specialty
\* match is 0 and specialty_score is the min-max normalized rating; it is 0 for
\* every coach when all ratings of the batch are equal.
C8_SpecialtyFromRatingAlone ==
    (Returned /\ outcome = "table" /\ NoTagMatches) =>
        /\ \A g \in DOMAIN grp :
            /\ FillNa0(grp[g].specialty_match) = 0
            /\ IF RatingSpan > 0
               THEN IsRatio(grp[g].specialty_score,
                            FillNa0(grp[g].rating) - Min(BatchRatings), RatingSpan)
               ELSE IsZero(grp[g].specialty_score)
        /\ \A k \in DOMAIN result :
            \E g \in DOMAIN grp :
                /\ grp[g].coach = result[k].coach
                /\ grp[g].specialty_score = result[k].specialty_score

\* C8, witness: an event that matches no tag is requested, the coach table holds
\* rows for the coaches returned, and the ratings of the batch are all equal.
C8_Witness ==
    /\ outcome = "table"
    /\ event.kind = "text"
    /\ NoTagMatches
    /\ Len(result) = 2
    /\ \A k \in DOMAIN result :
           \E j \in DOMAIN coaches :
               coaches[j].coach = result[k].coach /\ coaches[j].rating.kind = "num"
    /\ RatingSpan = 0

\* C9: raising the minutes of one record never lowers the minutes_score of the
\* coach of that record.
C9_MinutesScoreMonotone ==
    (pc = "done" /\ raised # "" /\ outcome = "table") =>
        \A k \in DOMAIN result : \A q \in DOMAIN previous :
            (result[k].coach = raised /\ previous[q].coach = raised)
                => FracLe(previous[q].minutes_score, result[k].minutes_score)

\* C9, witness: the coach whose minutes were raised was below the batch maximum
\* with a positive score, and its score rose.
C9_Witness ==
    /\ pc = "done"
    /\ raised # ""
    /\ outcome = "table"
    /\ \E k \in DOMAIN result : \E q \in DOMAIN previous :
        /\ result[k].coach = raised
        /\ previous[q].coach = raised
        /\ previous[q].minutes_score.n > 0
        /\ previous[q].minutes_score.n < previous[q].minutes_score.d
        /\ FracLt(previous[q].minutes_score, result[k].minutes_score)

\* C10: no coach has more than one row in the returned table.
C10_OneRowPerCoach ==
    outcome = "table" =>
        \A i, j \in DOMAIN result : result[i].coach = result[j].coach => i = j

====
